---- MODULE Spec2Model ----
(***************************************************************************)
(* Model of release_stats.py: the Github client (request, get_prs), the    *)
(* page loop, parse_pr and the merged-PR filter of main(), the per-release *)
(* git statistics and the comment tally.                                   *)
(*                                                                         *)
(* Spec         main() from its first forge request (line 56) onwards.     *)
(* SpecRelease  the release loop of main() (lines 84-113) over a bounded   *)
(*              commit graph.                                              *)
(* SpecAuthors  the same loop over histories with plain subjects only.     *)
(* SpecTally    the comment tally and the CSV output (lines 115-141).      *)
(***************************************************************************)
EXTENDS Integers, Sequences, FiniteSets, TLC

VARIABLES pc, page, i, resp, trace, sent, ret, resps, prs, exc, empties,
          repo, master, analyzed, release, report,
          pulled, pr_comments, review_comments, before, contributors, csv

\* pc               where main() is: "rate_limit", "get_prs", "sleep",
\*                  "get_prs_tail", "accumulate", "parse", "filter",
\*                  "releases", "tally", "done", or "aborted" once an
\*                  exception has left main()
\* exc              the exception that left main(): its type and its line
\* page, i          the loop variables of lines 61 and 31
\* resp             the last response get_prs received
\* trace            the status codes of the attempts of the current call
\* sent             every request issued: the page it was issued for (-1 for
\*                  the rate limit) and the uri that went out
\* ret              what the last completed get_prs returned
\* resps, prs       the accumulator of line 60 and the rows of line 66
\* empties          the pages whose call ended on a 200 with zero records
\* repo, master     the commit graph of bitcoin_directory and where master is
\* analyzed         how many sections of the configuration have been analyzed
\* release, report  the refs of the last analyzed release and what lines
\*                  108-113 printed for it
\* pulled           how many PRs of the list have been tallied
\* pr_comments, review_comments   the decoded answers for the last PR
\* before           contributors as it was before the last PR
\* contributors     the defaultdict of line 77
\* csv              the rows written at lines 137-141
vars == <<pc, page, i, resp, trace, sent, ret, resps, prs, exc, empties,
          repo, master, analyzed, release, report,
          pulled, pr_comments, review_comments, before, contributors, csv>>

fetchVars == <<page, i, resp, trace, sent, ret, resps, prs, empties>>
releaseVars == <<repo, master, analyzed, release, report>>
tallyVars == <<pulled, pr_comments, review_comments, before, contributors, csv>>

\* ------------------------------------------------------------------ bounds
MaxPR == 2
MaxPageLen == 2
MaxCommits == 3
NumReleases == 2
MaxPulls == 2
MaxComments == 2

\* ------------------------------------------------------- program constants
MaxAttempts == 5
PageCap == 3
PerPage == 100
StatusOK == 200
TopN == 10

\* ------------------------------------------------------------ exceptions
NoExc == [type |-> "none", line |-> 0]
Raise(t, l) == [type |-> t, line |-> l]

\* ------------------------------------------------------------ the forge
\* A raw pull-request record as the forge lists it.  complete is FALSE when
\* one of the fields parse_pr reads (user.login, state, created_at,
\* closed_at) is absent.
PRNumbers == 1..MaxPR
RawPR == [number : PRNumbers, complete : BOOLEAN]

Range(s) == {s[k] : k \in 1..Len(s)}

SeqsUpTo(S, n) == UNION {[1..m -> S] : m \in 0..n}

\* A listing page: at most MaxPageLen records, newest (highest number) first.
PageContents == {s \in SeqsUpTo(RawPR, MaxPageLen) :
                    \A a, b \in 1..Len(s) : a < b => s[a].number > s[b].number}

ListBody(items) == [kind |-> "list", items |-> items]
ObjectBody == [kind |-> "object", items |-> <<>>]
TextBody == [kind |-> "text", items |-> <<>>]

\* What the pulls endpoint can answer: 200 with a JSON list of records, an
\* API error with a JSON object ({"message": ...}), or a gateway error whose
\* body is not JSON.
PullsResponses == {[status_code |-> StatusOK, body |-> ListBody(p)] : p \in PageContents}
                    \cup {[status_code |-> 502, body |-> ObjectBody],
                          [status_code |-> 502, body |-> TextBody]}

NoResp == [status_code |-> 0, body |-> TextBody]

\* ------------------------------------------------------- Github.request
\* The options get_prs passes for a page.
PrsOptions(p) == {<<"state", "closed">>, <<"per_page", PerPage>>, <<"page", p>>}

\* request(req, options): the uri is built from req alone; options is
\* defaulted and then never used.
RequestUri(req, options) == [path |-> req, query |-> {}]

\* The forge page a pulls uri selects: the page parameter, or the forge's
\* default first page when the uri has none.
ForgePageOf(uri) == IF \E q \in uri.query : q[1] = "page"
                    THEN (CHOOSE q \in uri.query : q[1] = "page")[2]
                    ELSE 1

\* ------------------------------------------------------- Github.get_prs
\* line 33 without its break
BreakOnMut(r) == FALSE
\* line 33: leave the retry loop
BreakOn(r) == r.status_code = StatusOK

\* line 38: json.loads(resp.text)
JsonLoadsRaises(r) == r.body.kind = "text"

\* line 39 with the first and last numbers printed only for a non-empty list
PrintRaisesMut(r) == IF r.body.kind = "object" THEN Raise("KeyError", 39) ELSE NoExc
\* line 39: the progress line reads ret[0]['number'] and ret[-1]['number']
PrintRaises(r) == IF r.body.kind = "object" THEN Raise("KeyError", 39)
                  ELSE IF r.body.items = <<>> THEN Raise("IndexError", 39)
                  ELSE NoExc

\* lines 36-40: what the call ends with for the last response
GetPrsExc(r) == IF JsonLoadsRaises(r) THEN Raise("JSONDecodeError", 38)
                ELSE PrintRaises(r)

\* ------------------------------------------------------------- parse_pr
\* line 43: an f-string, so the row is a str
ParsePr(pr) == [type |-> "str", number |-> pr.number]
ParsePrRaises(pr) == ~pr.complete

\* ------------------------------------------------------------------ Init
IdleRelease ==
    /\ repo = <<>>
    /\ master = 0
    /\ analyzed = 0
    /\ release = [previous_branch |-> 0, branch |-> 0]
    /\ report = [printed |-> FALSE, commits |-> 0, merges |-> 0, authors |-> {}, merge_base |-> 0,
                 num_new_authors |-> 0, authors_by_commit |-> <<>>]

IdleTally ==
    /\ pulled = 0
    /\ pr_comments = ListBody(<<>>)
    /\ review_comments = ListBody(<<>>)
    /\ before = <<>>
    /\ contributors = <<>>
    /\ csv = {}

IdleFetch ==
    /\ page = 0
    /\ i = 0
    /\ resp = NoResp
    /\ trace = <<>>
    /\ sent = <<>>
    /\ ret = <<>>
    /\ resps = <<>>
    /\ prs = <<>>
    /\ empties = {}

Init ==
    /\ pc = "rate_limit"
    /\ exc = NoExc
    /\ IdleFetch
    /\ IdleRelease
    /\ IdleTally

\* ------------------------------------------------------------ main, 56-74
\* lines 56-57: the rate-limit request; an error answer has no 'resources'
RateLimit ==
    /\ pc = "rate_limit"
    /\ \E ok \in BOOLEAN :
          /\ sent' = Append(sent, [page |-> -1, uri |-> RequestUri("rate_limit", {})])
          /\ IF ok
             THEN pc' = "get_prs" /\ exc' = exc
             ELSE pc' = "aborted" /\ exc' = Raise("KeyError", 57)
    /\ UNCHANGED <<page, i, resp, trace, ret, resps, prs, empties>>
    /\ UNCHANGED <<releaseVars, tallyVars>>

\* lines 31-34: one attempt of get_prs(page)
GetPrsAttempt ==
    /\ pc = "get_prs"
    /\ \E r \in PullsResponses :
          /\ resp' = r
          /\ trace' = Append(trace, r.status_code)
          /\ sent' = Append(sent, [page |-> page,
                                   uri |-> RequestUri("repos/bitcoin/bitcoin/pulls", PrsOptions(page))])
          /\ pc' = IF BreakOn(r) THEN "get_prs_tail" ELSE "sleep"
    /\ UNCHANGED <<page, i, ret, resps, prs, empties, exc>>
    /\ UNCHANGED <<releaseVars, tallyVars>>

\* line 35 and the loop header of line 31
Sleep ==
    /\ pc = "sleep"
    /\ i' = i + 1
    /\ pc' = IF i + 1 < MaxAttempts THEN "get_prs" ELSE "get_prs_tail"
    /\ UNCHANGED <<page, resp, trace, sent, ret, resps, prs, empties, exc>>
    /\ UNCHANGED <<releaseVars, tallyVars>>

\* lines 36-40: report, decode, print, return
GetPrsTail ==
    /\ pc = "get_prs_tail"
    /\ empties' = IF resp.status_code = StatusOK /\ resp.body.kind = "list" /\ resp.body.items = <<>>
                  THEN empties \cup {page} ELSE empties
    /\ IF GetPrsExc(resp) # NoExc
       THEN /\ exc' = GetPrsExc(resp)
            /\ pc' = "aborted"
            /\ ret' = ret
       ELSE /\ exc' = exc
            /\ pc' = "accumulate"
            /\ ret' = resp.body.items
    /\ UNCHANGED <<page, i, resp, trace, sent, resps, prs>>
    /\ UNCHANGED <<releaseVars, tallyVars>>

\* lines 61-64: accumulate the page, break on an empty accumulator, next page
Accumulate ==
    /\ pc = "accumulate"
    /\ resps' = resps \o ret
    /\ IF Len(resps \o ret) = 0 \/ page + 1 >= PageCap
       THEN /\ pc' = "parse"
            /\ UNCHANGED <<page, i, trace>>
       ELSE /\ pc' = "get_prs"
            /\ page' = page + 1
            /\ i' = 0
            /\ trace' = <<>>
    /\ UNCHANGED <<resp, sent, ret, prs, empties, exc>>
    /\ UNCHANGED <<releaseVars, tallyVars>>

\* line 66: prs = [parse_pr(pr) for pr in resps]
ParseAll ==
    /\ pc = "parse"
    /\ IF \E k \in 1..Len(resps) : ParsePrRaises(resps[k])
       THEN /\ pc' = "aborted"
            /\ exc' = Raise("KeyError", 43)
            /\ prs' = prs
       ELSE /\ pc' = "filter"
            /\ exc' = exc
            /\ prs' = [k \in 1..Len(resps) |-> ParsePr(resps[k])]
    /\ UNCHANGED <<page, i, resp, trace, sent, ret, resps, empties>>
    /\ UNCHANGED <<releaseVars, tallyVars>>

\* line 74: pr['merged_at'] subscripts each row; a str row raises TypeError
FilterRaises(rows) == \E k \in 1..Len(rows) : rows[k].type = "str"

FilterMerged ==
    /\ pc = "filter"
    /\ IF FilterRaises(prs)
       THEN pc' = "aborted" /\ exc' = Raise("TypeError", 74)
       ELSE pc' = "releases" /\ exc' = exc
    /\ UNCHANGED fetchVars
    /\ UNCHANGED <<releaseVars, tallyVars>>

Next == RateLimit \/ GetPrsAttempt \/ Sleep \/ GetPrsTail \/ Accumulate \/ ParseAll \/ FilterMerged

Spec == Init /\ [][Next]_vars

\* =================================================== the release loop, 84-113
\* ------------------------------------------------------------ repository
Commits == 1..MaxCommits
AuthorOrder == <<"Alice", "alice">>
Authors == Range(AuthorOrder)

SubjMerge == <<"M","e","r","g","e"," ","#","1","2",":"," ","x">>
SubjRevert == <<"R","e","v","e","r","t"," ","\"","M","e","r","g","e"," ","#","1","2",":"," ","x","\"">>
SubjPlain == <<"F","i","x"," ","x">>
Subjects == {SubjMerge, SubjRevert, SubjPlain}

\* Parents are older commits; commit 1 is the root, every other commit has
\* one parent or is a merge of two.
ParentSets(c) == IF c = 1 THEN {{}}
                 ELSE {P \in SUBSET (1..(c - 1)) : Cardinality(P) \in {1, 2}}

CommitRecords(c, subjects) == [parents : ParentSets(c), author : Authors, subject : subjects]

\* The histories of n commits whose subjects come from subjects.
RECURSIVE Histories(_, _)
Histories(n, subjects) ==
    IF n = 0 THEN {<<>>}
    ELSE {Append(r, cr) : r \in Histories(n - 1, subjects), cr \in CommitRecords(n, subjects)}

Repos == Histories(MaxCommits, Subjects)

\* A ref of the configuration: a name that resolves to commit k, or 0 for a
\* name that resolves to nothing.
Unresolved == 0
RefValues == Commits \cup {Unresolved}

RECURSIVE Ancestors(_, _)
Ancestors(r, c) == {c} \cup UNION {Ancestors(r, p) : p \in r[c].parents}

\* git log A..B: reachable from B and not from A; nothing on stdout when a
\* ref does not resolve (the error goes to stderr, the exit code is ignored).
RevRange(r, a, b) == IF a = Unresolved \/ b = Unresolved THEN {}
                     ELSE Ancestors(r, b) \ Ancestors(r, a)

\* git log lists newest first
RECURSIVE LogOrder(_)
LogOrder(S) == IF S = {} THEN <<>>
               ELSE LET m == CHOOSE x \in S : \A y \in S : y <= x
                    IN <<m>> \o LogOrder(S \ {m})

NoMerges(r, S) == {c \in S : Cardinality(r[c].parents) <= 1}

\* --oneline: abbreviated hash, a space, the subject
Hex == <<"a","b","c","d","e","f">>
OneLine(r, c) == <<Hex[c]>> \o <<" ">> \o r[c].subject

\* ------------------------------------------------------------ shell tools
Contains(s, pat) == \E k \in 1..(Len(s) - Len(pat) + 1) : SubSeq(s, k, k + Len(pat) - 1) = pat

GrepMergePat == <<"M","e","r","g","e"," ","#">>
GrepRevertPat == <<"R","e","v","e","r","t"," ","\"","M","e","r","g","e">>

Grep(lines, pat) == SelectSeq(lines, LAMBDA l : Contains(l, pat))
GrepV(lines, pat) == SelectSeq(lines, LAMBDA l : ~Contains(l, pat))
WcL(lines) == Len(lines)

Count(lines, x) == Cardinality({k \in 1..Len(lines) : lines[k] = x})

Repeat(x, n) == [k \in 1..n |-> x]

\* sort: the lines in collation order
RECURSIVE SortFrom(_, _)
SortFrom(lines, k) == IF k > Len(AuthorOrder) THEN <<>>
                      ELSE Repeat(AuthorOrder[k], Count(lines, AuthorOrder[k])) \o SortFrom(lines, k + 1)
Sort(lines) == SortFrom(lines, 1)

\* uniq: drop a line equal to the one before it
Uniq(lines) == SelectSeq([k \in 1..Len(lines) |-> [l |-> lines[k], first |-> k = 1 \/ lines[k - 1] # lines[k]]],
                         LAMBDA e : e.first)

\* uniq -c on sorted lines: one (count, line) per run
UniqC(lines) == LET u == Uniq(lines)
                IN [k \in 1..Len(u) |-> [count |-> Count(lines, u[k].l), name |-> u[k].l]]

Rank(name) == CHOOSE k \in 1..Len(AuthorOrder) : AuthorOrder[k] = name

\* sort -n -r: by count, largest first; equal counts in reverse line order
RECURSIVE SortNR(_)
SortNR(S) == IF S = {} THEN <<>>
             ELSE LET m == CHOOSE x \in S : \A y \in S :
                              \/ y.count < x.count
                              \/ y.count = x.count /\ Rank(y.name) <= Rank(x.name)
                  IN <<m>> \o SortNR(S \ {m})

Slice(lines, n) == SubSeq(lines, 1, IF Len(lines) < n THEN Len(lines) ELSE n)

\* --------------------------------------------------------- the statistics
\* line 90-91
CommitsCmd(r, prev, branch) == WcL(LogOrder(NoMerges(r, RevRange(r, prev, branch))))

\* line 95-96: the log is not restricted to merge commits
MergesCmd(r, prev, branch) ==
    LET log == LogOrder(RevRange(r, prev, branch))
        lines == [k \in 1..Len(log) |-> OneLine(r, log[k])]
    IN WcL(GrepV(Grep(lines, GrepMergePat), GrepRevertPat))

AuthorLines(r, S) == LET log == LogOrder(NoMerges(r, S))
                     IN [k \in 1..Len(log) |-> r[log[k]].author]

\* lines 100-101
AuthorsCmd(r, prev, branch) ==
    LET u == Uniq(Sort(AuthorLines(r, RevRange(r, prev, branch))))
    IN {u[k].l : k \in 1..Len(u)}

\* line 102: git merge-base prints one best common ancestor, nothing when a
\* ref does not resolve
MergeBases(r, a, b) ==
    IF a = Unresolved \/ b = Unresolved THEN {Unresolved}
    ELSE LET common == Ancestors(r, a) \cap Ancestors(r, b)
         IN {c \in common : \A d \in common : d # c => c \notin Ancestors(r, d)}

\* lines 103-104: with an empty merge_base the command is "git log" of HEAD,
\* the checkout, taken to be on master
OldAuthorsCmd(r, merge_base, head) ==
    LET from == IF merge_base = Unresolved THEN head ELSE merge_base
        u == Uniq(Sort(AuthorLines(r, Ancestors(r, from))))
    IN {u[k].l : k \in 1..Len(u)}

\* line 106 with the difference taken the other way round
NumNewAuthorsMut(authors, old_authors) == Cardinality(old_authors \ authors)
\* line 106
NumNewAuthors(authors, old_authors) == Cardinality(authors \ old_authors)

\* lines 110-111
AuthorsByCommitCmd(r, prev, branch) ==
    Slice(SortNR(Range(UniqC(Sort(AuthorLines(r, RevRange(r, prev, branch)))))), TopN)

NoReport == [printed |-> FALSE, commits |-> 0, merges |-> 0, authors |-> {}, merge_base |-> 0,
             num_new_authors |-> 0, authors_by_commit |-> <<>>]
NoRelease == [previous_branch |-> 0, branch |-> 0]

InitRelease ==
    /\ pc = "releases"
    /\ exc = NoExc
    /\ IdleFetch
    /\ IdleTally
    /\ repo \in Repos
    /\ master \in Commits
    /\ analyzed = 0
    /\ release = NoRelease
    /\ report = NoReport

\* lines 84-113: one configured release
AnalyzeRelease ==
    /\ pc = "releases"
    /\ analyzed < NumReleases
    /\ \E prev_branch \in RefValues, branch \in RefValues :
       \E merge_base \in MergeBases(repo, master, prev_branch) :
          LET authors == AuthorsCmd(repo, prev_branch, branch)
              old_authors == OldAuthorsCmd(repo, merge_base, master)
          IN /\ release' = [previous_branch |-> prev_branch, branch |-> branch]
             /\ report' = [printed |-> TRUE,
                           commits |-> CommitsCmd(repo, prev_branch, branch),
                           merges |-> MergesCmd(repo, prev_branch, branch),
                           authors |-> authors,
                           merge_base |-> merge_base,
                           num_new_authors |-> NumNewAuthors(authors, old_authors),
                           authors_by_commit |-> AuthorsByCommitCmd(repo, prev_branch, branch)]
    /\ analyzed' = analyzed + 1
    /\ UNCHANGED <<pc, exc, repo, master>>
    /\ UNCHANGED <<fetchVars, tallyVars>>

\* line 84: config.sections() is exhausted
ReleasesDone ==
    /\ pc = "releases"
    /\ analyzed = NumReleases
    /\ pc' = "tally"
    /\ UNCHANGED <<exc, fetchVars, releaseVars, tallyVars>>

NextRelease == AnalyzeRelease \/ ReleasesDone

SpecRelease == InitRelease /\ [][NextRelease]_vars

\* The release loop over the histories whose subjects are all plain: the
\* author statistics (lines 98-106) never read a subject.
InitAuthors ==
    /\ pc = "releases"
    /\ exc = NoExc
    /\ IdleFetch
    /\ IdleTally
    /\ repo \in Histories(MaxCommits, {SubjPlain})
    /\ master \in Commits
    /\ analyzed = 0
    /\ release = NoRelease
    /\ report = NoReport

SpecAuthors == InitAuthors /\ [][NextRelease]_vars

\* ================================================ the comment tally, 115-141
Logins == {"sipa", "jnewbery"}
NoneUser == [is_none |-> TRUE, login |-> ""]
Users == {[is_none |-> FALSE, login |-> l] : l \in Logins} \cup {NoneUser}
Comment == [user : Users]
CommentLists == SeqsUpTo(Comment, MaxComments)

\* What a comments endpoint can answer (one GET, no retry)
CommentResponses == {[status_code |-> StatusOK, body |-> ListBody(c)] : c \in CommentLists}
                      \cup {[status_code |-> 502, body |-> ObjectBody],
                            [status_code |-> 502, body |-> TextBody]}

\* contributors[login] += 1 on a defaultdict(int)
Increment(d, login) == IF login \in DOMAIN d THEN [d EXCEPT ![login] = @ + 1]
                       ELSE [l \in DOMAIN d \cup {login} |-> IF l = login THEN 1 ELSE d[l]]

NoContributors == [l \in {} |-> 0]

\* lines 120-123: every issue comment is subscripted comment['user']['login'];
\* iterating a JSON object yields its keys, which are str
RECURSIVE CountPrComments(_, _, _)
CountPrComments(d, comments, k) ==
    IF k > Len(comments) THEN [contributors |-> d, exc |-> NoExc]
    ELSE IF comments[k].user.is_none THEN [contributors |-> d, exc |-> Raise("TypeError", 123)]
    ELSE CountPrComments(Increment(d, comments[k].user.login), comments, k + 1)

\* lines 126-130: a review comment is counted when its user is not None
RECURSIVE CountReviewComments(_, _, _)
CountReviewComments(d, comments, k) ==
    IF k > Len(comments) THEN [contributors |-> d, exc |-> NoExc]
    ELSE IF comments[k].user.is_none THEN CountReviewComments(d, comments, k + 1)
    ELSE CountReviewComments(Increment(d, comments[k].user.login), comments, k + 1)

\* lines 118-132 for the two decoded answers
TallyOutcome(d, pr_body, review_body) ==
    LET first == IF pr_body.kind = "object" THEN [contributors |-> d, exc |-> Raise("TypeError", 123)]
                 ELSE CountPrComments(d, pr_body.items, 1)
    IN IF first.exc # NoExc THEN first
       ELSE IF review_body.kind = "object" THEN [contributors |-> first.contributors, exc |-> Raise("TypeError", 129)]
       ELSE CountReviewComments(first.contributors, review_body.items, 1)

InitTally ==
    /\ pc = "tally"
    /\ exc = NoExc
    /\ IdleFetch
    /\ IdleRelease
    /\ pulled = 0
    /\ pr_comments = ListBody(<<>>)
    /\ review_comments = ListBody(<<>>)
    /\ before = NoContributors
    /\ contributors = NoContributors
    /\ csv = {}

\* lines 115-132: one PR of the list
TallyPR ==
    /\ pc = "tally"
    /\ pulled < MaxPulls
    /\ \E pr_resp \in CommentResponses, review_resp \in CommentResponses :
          /\ pulled' = pulled + 1
          /\ before' = contributors
          /\ IF JsonLoadsRaises(pr_resp)
             THEN /\ pc' = "aborted"
                  /\ exc' = Raise("JSONDecodeError", 118)
                  /\ UNCHANGED <<pr_comments, review_comments, contributors>>
             ELSE IF JsonLoadsRaises(review_resp)
             THEN /\ pc' = "aborted"
                  /\ exc' = Raise("JSONDecodeError", 119)
                  /\ pr_comments' = pr_resp.body
                  /\ review_comments' = review_resp.body
                  /\ UNCHANGED contributors
             ELSE LET out == TallyOutcome(contributors, pr_resp.body, review_resp.body)
                  IN /\ pr_comments' = pr_resp.body
                     /\ review_comments' = review_resp.body
                     /\ contributors' = out.contributors
                     /\ exc' = out.exc
                     /\ pc' = IF out.exc # NoExc THEN "aborted" ELSE "tally"
    /\ UNCHANGED csv
    /\ UNCHANGED <<fetchVars, releaseVars>>

\* lines 134-141: the header row and one row per contributor
WriteCsv ==
    /\ pc = "tally"
    /\ pulled = MaxPulls
    /\ csv' = {<<"commenter", "comments">>} \cup {<<l, contributors[l]>> : l \in DOMAIN contributors}
    /\ pc' = "done"
    /\ UNCHANGED <<exc, pulled, pr_comments, review_comments, before, contributors>>
    /\ UNCHANGED <<fetchVars, releaseVars>>

NextTally == TallyPR \/ WriteCsv

SpecTally == InitTally /\ [][NextTally]_vars

\* ==================================================================== claims
GetPrsLines == {38, 39}

\* C1: one get_prs call issues at most 5 GETs, none after the first 200, and
\* a 200 answer carrying a non-empty list of records is returned as it is,
\* without an error of get_prs.
C1_GetPrsRetry ==
    /\ Len(trace) <= MaxAttempts
    /\ \A k \in 1..(Len(trace) - 1) : trace[k] # StatusOK
    /\ (/\ pc # "get_prs_tail"
        /\ Len(trace) > 0
        /\ trace[Len(trace)] = StatusOK
        /\ resp.body.items # <<>>)
          => ret = resp.body.items /\ exc.line \notin GetPrsLines

\* C1 witness: four failed attempts, then a 200 with records, returned.
C1_Witness ==
    /\ pc = "accumulate"
    /\ Len(trace) = MaxAttempts
    /\ \A k \in 1..(MaxAttempts - 1) : trace[k] # StatusOK
    /\ trace[MaxAttempts] = StatusOK
    /\ Len(ret) = 2

Exhausted == Len(trace) = MaxAttempts /\ trace[MaxAttempts] # StatusOK

\* C2: a page whose 5 attempts all fail does not abort the run (the error is
\* reported and the run goes on with the other pages).
C2_Original == (Exhausted /\ pc = "aborted") => exc.line \notin GetPrsLines

PullsRequests == {k \in 1..Len(sent) : sent[k].page >= 0}

\* C3: the request issued for page N asks the forge for page N with
\* state=closed and per_page=100, and two calls with different page numbers
\* never retrieve the same forge page.
C3_Original ==
    /\ \A k \in PullsRequests : sent[k].uri.query = PrsOptions(sent[k].page)
    /\ \A j, k \in PullsRequests :
          sent[j].page # sent[k].page => ForgePageOf(sent[j].uri) # ForgePageOf(sent[k].uri)

\* C4: once page N has answered with zero records no page above N is
\* requested; no page at or above the cap is requested; and the loop is left
\* only after an empty page or after the last page under the cap.
C4_StopAtEmptyPage ==
    /\ \A k \in PullsRequests : \A n \in empties : sent[k].page <= n
    /\ \A k \in PullsRequests : sent[k].page < PageCap
    /\ pc \in {"parse", "filter", "releases"} => (page \in empties \/ page = PageCap - 1)

\* C4 witness: page 0 had records, page 1 answered 200 with none, and the
\* fetching has ended with requests for pages 0 and 1 only.
C4_Witness ==
    /\ empties = {1}
    /\ resps # <<>>
    /\ pc = "aborted"
    /\ \E k \in PullsRequests : sent[k].page = 1

\* C5: when the first page is a 200 with zero records no error is raised.
C5_Original == 0 \in empties => exc = NoExc

\* C8: the run is not aborted by an error of one page, one record or one row.
C8_Original == pc = "aborted" => exc.line \notin {38, 39, 43, 74}

\* main() never gets past the filter of line 74: every list get_prs returns
\* is non-empty, so prs holds at least one str row.
MainStopsAtFilter == pc \notin {"releases", "tally", "done"}

UnresolvedRelease == release.previous_branch = Unresolved \/ release.branch = Unresolved

\* C7: no statistic is reported for a release one of whose refs does not
\* resolve.
C7_Original == (analyzed > 0 /\ UnresolvedRelease) => ~report.printed

\* Reachability stated as a closure of the parent relation.
RECURSIVE Closure(_, _)
Closure(S, n) == IF n = 0 THEN S
                 ELSE Closure(S \cup UNION {repo[c].parents : c \in S}, n - 1)
ReachableFrom(c) == Closure({c}, MaxCommits)
IsMergeCommit(c) == Cardinality(repo[c].parents) >= 2
InRange == ReachableFrom(release.branch) \ ReachableFrom(release.previous_branch)

Digits == {"0","1","2","3","4","5","6","7","8","9"}
MatchesMergeNumber(s) ==
    \E k \in 1..Len(s) :
        /\ k + Len(GrepMergePat) <= Len(s)
        /\ SubSeq(s, k, k + Len(GrepMergePat) - 1) = GrepMergePat
        /\ s[k + Len(GrepMergePat)] \in Digits

\* C9: the merge count is the number of merge commits of the range whose
\* subject matches "Merge #<digits>" and not "Revert "Merge".
C9_Original ==
    (analyzed > 0 /\ ~UnresolvedRelease) =>
        report.merges = Cardinality({c \in InRange :
                                        /\ IsMergeCommit(c)
                                        /\ MatchesMergeNumber(repo[c].subject)
                                        /\ ~Contains(repo[c].subject, GrepRevertPat)})

RangeAuthors == {repo[c].author : c \in {d \in InRange : ~IsMergeCommit(d)}}
HistoricalAuthors == {repo[c].author : c \in {d \in ReachableFrom(report.merge_base) : ~IsMergeCommit(d)}}
CommonAncestors == ReachableFrom(master) \cap ReachableFrom(release.previous_branch)

\* C10: with both refs resolved, the merge base is a common ancestor of
\* master and previous_branch that no other common ancestor descends from,
\* and new_author_count = |range_authors - historical_authors|.
C10_NewAuthors ==
    (analyzed > 0 /\ ~UnresolvedRelease) =>
        /\ report.merge_base \in CommonAncestors
        /\ \A d \in CommonAncestors : d # report.merge_base => report.merge_base \notin ReachableFrom(d)
        /\ report.authors = RangeAuthors
        /\ report.num_new_authors = Cardinality(RangeAuthors \ HistoricalAuthors)

\* C10 witness: two authors in the range, one of them also in the history up
\* to the merge base, the other only after it.
C10_Witness ==
    /\ analyzed > 0
    /\ ~UnresolvedRelease
    /\ Cardinality(RangeAuthors) = 2
    /\ Cardinality(RangeAuthors \cap HistoricalAuthors) = 1
    /\ report.num_new_authors = 1

NullAuthor(body) == \E k \in 1..Len(body.items) : body.items[k].user.is_none
Counted(body, l) == Cardinality({k \in 1..Len(body.items) :
                                    ~body.items[k].user.is_none /\ body.items[k].user.login = l})
TallyOf(d, l) == IF l \in DOMAIN d THEN d[l] ELSE 0

\* C6: a PR whose issue or review comments include one with a null author
\* raises no error, and every other comment of it adds 1 to its author.
C6_Original ==
    (/\ pulled > 0
     /\ pr_comments.kind = "list"
     /\ review_comments.kind = "list"
     /\ NullAuthor(pr_comments) \/ NullAuthor(review_comments))
        => /\ exc = NoExc
           /\ \A l \in Logins :
                 TallyOf(contributors, l) = TallyOf(before, l) + Counted(pr_comments, l) + Counted(review_comments, l)

====
